---- MODULE Spec2Model ----
(***************************************************************************)
(* The Lethal Trifecta gate: session_tracker.py (per-session condition     *)
(* tracking over Cosmos DB or an in-memory fallback), tool_registry.py     *)
(* (tool -> condition lookup) and policy_engine.py (evaluate).             *)
(*                                                                         *)
(* A process instance runs evaluate() as a sequence of store operations:   *)
(*   get_session_state -> would_complete_trifecta -> record_tool_call      *)
(*   (load, then save) -> get_session_state                                *)
(* Each store operation is one step, so that instances sharing the Cosmos  *)
(* container interleave exactly where the code reads or writes it.         *)
(***************************************************************************)
EXTENDS Integers, Sequences, FiniteSets, TLC

\* ---------------------------------------------------------------- bounds
MaxCalls == 3
MaxFailures == 2
\* Calls made on the one session that is called again and again.
MaxSessionCalls == 5
\* Requests, evaluations and snapshot queries together, where both are made.
MaxRequests == 4
\* Length of the tool sequence that is fed to two sessions.
MaxSteps == 3

\* Process instances of the Function App, and the session ids callers send.
Instances == {"i1", "i2"}
SessionIds == {"s1", "s2"}

\* ------------------------------------------------------- tool_registry.py
ALL_CONDITIONS == {"private_data", "untrusted_content", "exfiltration_vector"}

\* Python's None, as returned by dict.get for a missing key.
NoCondition == "None"

\* tools.json: the registered tools and their conditions.
ToolConditions ==
    [t \in {"read_db", "fetch_webpage", "send_email"} |->
        CASE t = "read_db" -> "private_data"
          [] t = "fetch_webpage" -> "untrusted_content"
          [] t = "send_email" -> "exfiltration_vector"]

\* The tool names callers send: the registered ones and an unregistered one.
ToolNames == DOMAIN ToolConditions \cup {"list_files"}

get_tool_conditions == ToolConditions

get_condition_for_tool(tool) ==
    IF tool \in DOMAIN get_tool_conditions
    THEN get_tool_conditions[tool]
    ELSE NoCondition

\* Every tool name taken as registered.
is_known_tool_any(tool) == TRUE

is_known_tool(tool) == tool \in DOMAIN get_tool_conditions

\* ----------------------------------------------------- session_tracker.py
\* Python's string order on the condition names (sorted()).
Rank(c) ==
    CASE c = "exfiltration_vector" -> 1
      [] c = "private_data" -> 2
      [] c = "untrusted_content" -> 3
      [] OTHER -> 0

RECURSIVE Sorted(_)
Sorted(S) ==
    IF S = {} THEN <<>>
    ELSE LET m == CHOOSE x \in S : \A y \in S : Rank(x) <= Rank(y)
         IN <<m>> \o Sorted(S \ {m})

\* set(list)
ToSet(seq) == {seq[k] : k \in 1..Len(seq)}

\* Python's None for a session that is not stored.
None == [session_id |-> "None"]

VARIABLES
    cosmos,             \* cosmos[i]: _get_cosmos_container() of instance i is a container
    items,              \* the Cosmos "sessions" container, shared: id -> document
    sessions,           \* sessions[i]: the in-memory _sessions dict of instance i
    pc,                 \* pc[i]: where instance i is inside evaluate()
    session_id,         \* evaluate's arguments
    tool_name,
    conditions_before,  \* evaluate's locals
    condition,
    session,            \* record_tool_call's local
    result,             \* the GateResult being returned
    clock,              \* datetime.now(timezone.utc)
    failed,             \* failed[i]: a store operation of the running call failed
    nfail,              \* store operations that failed so far
    before,             \* before[i]: what was stored for the session when the call began
    evaluated,          \* evaluated[k][s]: evaluate calls returned for s on store k
    allowed_mapped,     \* allowed_mapped[k][s]: those that returned ALLOW for a mapped tool
    log,                \* overlapping calls: the calls begun and returned, in order
    snapshot,           \* the last response of GET /api/session/{id}
    first_seen,         \* first_seen[k][s]: <<created_at>> of the first snapshot of s on store k
    response,           \* the last response of POST /api/evaluate
    audit               \* what the last log_gate_decision did

vars == <<cosmos, items, sessions, pc, session_id, tool_name, conditions_before,
          condition, session, result, clock, failed, nfail, before, evaluated,
          allowed_mapped, log, snapshot, first_seen, response, audit>>

\* What the HTTP handlers around evaluate() write.
web == <<snapshot, first_seen, response, audit>>

NoResult == [decision |-> "none"]

NoSnapshot == [status |-> 0]

NoResponse == [status |-> 0]

NoAudit == [outcome |-> "none"]

\* The stores: the shared Cosmos container and each instance's own _sessions.
Stores == Instances \cup {"cosmos"}

\* The store instance i reads and writes.
StoreOf(i) == IF cosmos[i] THEN "cosmos" ELSE i

\* What is stored for session s, as instance i reaches it.
Stored(i, s) == IF cosmos[i] THEN items[s] ELSE sessions[i][s]

\* The active_conditions stored for session s, as a set (empty when none is stored).
StoredActive(i, s) ==
    IF Stored(i, s) = None THEN {}
    ELSE IF cosmos[i] THEN ToSet(items[s].active_conditions)
    ELSE sessions[i][s].active_conditions

StoredCallCount(i, s) == IF Stored(i, s) = None THEN 0 ELSE Stored(i, s).call_count

StoredHistory(i, s) == IF Stored(i, s) = None THEN <<>> ELSE Stored(i, s).tool_history

\* _load_session: read_item and set(...) with a container (a failed read and a
\* 404 both give None), else _sessions.get.
_load_session(i, s, ok) ==
    IF cosmos[i]
    THEN IF ok /\ items[s] # None
         THEN [items[s] EXCEPT !.active_conditions = ToSet(@)]
         ELSE None
    ELSE sessions[i][s]

\* The document _save_session upserts.
Document(sess) ==
    [id |-> sess.session_id,
     session_id |-> sess.session_id,
     active_conditions |-> Sorted(sess.active_conditions),
     tool_history |-> sess.tool_history,
     created_at |-> sess.created_at,
     call_count |-> sess.call_count]

get_or_create_session(i, s, ok) ==
    LET loaded == _load_session(i, s, ok)
    IN IF loaded # None THEN loaded
       ELSE [session_id |-> s,
             active_conditions |-> {},
             tool_history |-> <<>>,
             created_at |-> clock,
             call_count |-> 0]

\* The check made on the stored set alone, the new condition left out.
would_complete_trifecta_stored_only(i, s, new_condition, ok) ==
    LET sess == get_or_create_session(i, s, ok)
    IN sess.active_conditions = ALL_CONDITIONS

\* Any further call refused once two conditions are stored.
would_complete_trifecta_at_two(i, s, new_condition, ok) ==
    LET sess == get_or_create_session(i, s, ok)
    IN Cardinality(sess.active_conditions) >= 2

\* The completion check made for the first session only.
would_complete_trifecta_first_session(i, s, new_condition, ok) ==
    LET sess == get_or_create_session(i, s, ok)
        hypothetical == sess.active_conditions \cup {new_condition}
    IN s = "s1" /\ hypothetical = ALL_CONDITIONS

would_complete_trifecta(i, s, new_condition, ok) ==
    LET sess == get_or_create_session(i, s, ok)
        hypothetical == sess.active_conditions \cup {new_condition}
    IN hypothetical = ALL_CONDITIONS

get_session_state(i, s, ok) ==
    LET sess == get_or_create_session(i, s, ok)
        active == sess.active_conditions
        missing == ALL_CONDITIONS \ active
    IN [session_id |-> s,
        active_conditions |-> Sorted(active),
        missing_conditions |-> Sorted(missing),
        conditions_met |-> Cardinality(active),
        conditions_total |-> Cardinality(ALL_CONDITIONS),
        trifecta_complete |-> (active = ALL_CONDITIONS),
        call_count |-> sess.call_count,
        tool_history |-> sess.tool_history,
        created_at |-> sess.created_at]

\* A call whose condition is already active not recorded again.
Recorded_once(sess, tool, cond) ==
    IF cond \in sess.active_conditions THEN sess
    ELSE [sess EXCEPT !.active_conditions = @ \cup {cond},
                      !.tool_history = Append(@, [tool |-> tool, condition |-> cond,
                                                  timestamp |-> clock]),
                      !.call_count = @ + 1]

\* The call counted and its condition added, with no history entry made.
Recorded_history_kept(sess, tool, cond) ==
    [sess EXCEPT !.active_conditions = @ \cup {cond},
                 !.call_count = @ + 1]

\* The call recorded with call_count left as it was.
Recorded_count_kept(sess, tool, cond) ==
    [sess EXCEPT !.active_conditions = @ \cup {cond},
                 !.tool_history = Append(@, [tool |-> tool, condition |-> cond,
                                             timestamp |-> clock])]

\* record_tool_call up to its _save_session: the session with the call recorded.
Recorded(sess, tool, cond) ==
    [sess EXCEPT !.active_conditions = @ \cup {cond},
                 !.tool_history = Append(@, [tool |-> tool, condition |-> cond,
                                             timestamp |-> clock]),
                 !.call_count = @ + 1]

\* -------------------------------------------------------------- the steps
Init ==
    /\ cosmos \in [Instances -> BOOLEAN]
    /\ items = [s \in SessionIds |-> None]
    /\ sessions = [i \in Instances |-> [s \in SessionIds |-> None]]
    /\ pc = [i \in Instances |-> "idle"]
    /\ session_id = [i \in Instances |-> "None"]
    /\ tool_name = [i \in Instances |-> ""]
    /\ conditions_before = [i \in Instances |-> <<>>]
    /\ condition = [i \in Instances |-> NoCondition]
    /\ session = [i \in Instances |-> None]
    /\ result = [i \in Instances |-> NoResult]
    /\ clock = 0
    /\ failed = [i \in Instances |-> FALSE]
    /\ nfail = 0
    /\ before = [i \in Instances |-> None]
    /\ evaluated = [k \in Stores |-> [s \in SessionIds |-> 0]]
    /\ allowed_mapped = [k \in Stores |-> [s \in SessionIds |-> 0]]
    /\ log = <<>>
    /\ snapshot = NoSnapshot
    /\ first_seen = [k \in Stores |-> [s \in SessionIds |-> <<>>]]
    /\ response = NoResponse
    /\ audit = NoAudit

\* A store operation of instance i succeeds (ok) or fails; only Cosmos operations fail.
StoreOp(i, ok) ==
    /\ ok \/ (cosmos[i] /\ nfail < MaxFailures)
    /\ failed' = [failed EXCEPT ![i] = @ \/ ~ok]
    /\ nfail' = IF ok THEN nfail ELSE nfail + 1

\* evaluate(session_id, tool_name) is called on instance i.
Invoke(i, s, t) ==
    /\ UNCHANGED web
    /\ pc[i] = "idle"
    /\ clock' = clock + 1
    /\ pc' = [pc EXCEPT ![i] = "state_before"]
    /\ session_id' = [session_id EXCEPT ![i] = s]
    /\ tool_name' = [tool_name EXCEPT ![i] = t]
    /\ before' = [before EXCEPT ![i] = Stored(i, s)]
    /\ UNCHANGED <<cosmos, items, sessions, conditions_before, condition, session,
                   result, failed, nfail, evaluated, allowed_mapped>>

\* The same, as one of the MaxCalls calls made.
Call(i, s, t) ==
    /\ clock < MaxCalls
    /\ Invoke(i, s, t)

\* A call made with no other evaluation in progress.
StartSeq(i, s, t) ==
    /\ \A j \in Instances : pc[j] = "idle"
    /\ Call(i, s, t)
    /\ UNCHANGED log

\* A call made whatever the other instances are doing.
Start(i, s, t) ==
    /\ Call(i, s, t)
    /\ log' = Append(log, [event |-> "call", instance |-> i, session_id |-> s,
                           tool_name |-> t, decision |-> "none"])

\* state_before = get_session_state(...); the unknown-tool return.
StateBefore(i, ok) ==
    /\ UNCHANGED web
    /\ pc[i] = "state_before"
    /\ StoreOp(i, ok)
    /\ LET state_before == get_session_state(i, session_id[i], ok)
       IN /\ conditions_before' =
                [conditions_before EXCEPT ![i] = state_before.active_conditions]
          /\ IF ~is_known_tool(tool_name[i])
             THEN /\ result' = [result EXCEPT ![i] =
                        [decision |-> "ALLOW",
                         tool_name |-> tool_name[i],
                         condition |-> NoCondition,
                         session_id |-> session_id[i],
                         conditions_before |-> state_before.active_conditions,
                         conditions_after |-> state_before.active_conditions]]
                  /\ pc' = [pc EXCEPT ![i] = "return"]
                  /\ UNCHANGED condition
             ELSE /\ condition' =
                        [condition EXCEPT ![i] = get_condition_for_tool(tool_name[i])]
                  /\ pc' = [pc EXCEPT ![i] = "check"]
                  /\ UNCHANGED result
    /\ UNCHANGED <<cosmos, items, sessions, session_id, tool_name, session, clock,
                   before, evaluated, allowed_mapped, log>>

\* The call recorded before the check is made, so that a BLOCK is stored too.
Check_record_first(i, ok) ==
    /\ UNCHANGED web
    /\ pc[i] = "check"
    /\ StoreOp(i, ok)
    /\ IF would_complete_trifecta(i, session_id[i], condition[i], ok)
       THEN /\ result' = [result EXCEPT ![i] =
                  [decision |-> "BLOCK",
                   tool_name |-> tool_name[i],
                   condition |-> condition[i],
                   session_id |-> session_id[i],
                   conditions_before |-> conditions_before[i],
                   conditions_after |-> conditions_before[i]]]
            /\ pc' = [pc EXCEPT ![i] = "return"]
            /\ LET sess == Recorded(get_or_create_session(i, session_id[i], ok),
                                    tool_name[i], condition[i])
               IN IF cosmos[i]
                  THEN /\ items' = [items EXCEPT ![session_id[i]] = Document(sess)]
                       /\ UNCHANGED sessions
                  ELSE /\ sessions' = [sessions EXCEPT ![i][session_id[i]] = sess]
                       /\ UNCHANGED items
       ELSE /\ pc' = [pc EXCEPT ![i] = "record_load"]
            /\ UNCHANGED <<result, items, sessions>>
    /\ UNCHANGED <<cosmos, session_id, tool_name, conditions_before,
                   condition, session, clock, before, evaluated, allowed_mapped, log>>

\* if would_complete_trifecta(...): the BLOCK return.
Check(i, ok) ==
    /\ UNCHANGED web
    /\ pc[i] = "check"
    /\ StoreOp(i, ok)
    /\ IF would_complete_trifecta(i, session_id[i], condition[i], ok)
       THEN /\ result' = [result EXCEPT ![i] =
                  [decision |-> "BLOCK",
                   tool_name |-> tool_name[i],
                   condition |-> condition[i],
                   session_id |-> session_id[i],
                   conditions_before |-> conditions_before[i],
                   conditions_after |-> conditions_before[i]]]
            /\ pc' = [pc EXCEPT ![i] = "return"]
       ELSE /\ pc' = [pc EXCEPT ![i] = "record_load"]
            /\ UNCHANGED result
    /\ UNCHANGED <<cosmos, items, sessions, session_id, tool_name, conditions_before,
                   condition, session, clock, before, evaluated, allowed_mapped, log>>

\* record_tool_call, lines 120-127: load or create, then mutate the dict. The
\* dict _sessions.get returned is the stored object, so mutating it changes it.
RecordLoad(i, ok) ==
    /\ UNCHANGED web
    /\ pc[i] = "record_load"
    /\ StoreOp(i, ok)
    /\ LET sess == Recorded(get_or_create_session(i, session_id[i], ok),
                            tool_name[i], condition[i])
       IN /\ session' = [session EXCEPT ![i] = sess]
          /\ sessions' = IF ~cosmos[i] /\ sessions[i][session_id[i]] # None
                         THEN [sessions EXCEPT ![i][session_id[i]] = sess]
                         ELSE sessions
    /\ pc' = [pc EXCEPT ![i] = "record_save"]
    /\ UNCHANGED <<cosmos, items, session_id, tool_name, conditions_before, condition,
                   result, clock, before, evaluated, allowed_mapped, log>>

\* A save that overwrites the record of every session with the one saved.
_save_session_every_key(i, ok) ==
    /\ UNCHANGED web
    /\ pc[i] = "record_save"
    /\ StoreOp(i, ok)
    /\ IF cosmos[i]
       THEN /\ items' = IF ok
                        THEN [s \in SessionIds |-> Document(session[i])]
                        ELSE items
            /\ UNCHANGED sessions
       ELSE /\ sessions' = [sessions EXCEPT ![i] = [s \in SessionIds |-> session[i]]]
            /\ UNCHANGED items
    /\ pc' = [pc EXCEPT ![i] = "state_after"]
    /\ UNCHANGED <<cosmos, session_id, tool_name, conditions_before, condition,
                   session, result, clock, before, evaluated, allowed_mapped, log>>

\* _save_session(session): upsert_item (a failure is logged and swallowed), else
\* _sessions[session_id] = session.
_save_session(i, ok) ==
    /\ UNCHANGED web
    /\ pc[i] = "record_save"
    /\ StoreOp(i, ok)
    /\ IF cosmos[i]
       THEN /\ items' = IF ok
                        THEN [items EXCEPT ![session_id[i]] = Document(session[i])]
                        ELSE items
            /\ UNCHANGED sessions
       ELSE /\ sessions' = [sessions EXCEPT ![i][session_id[i]] = session[i]]
            /\ UNCHANGED items
    /\ pc' = [pc EXCEPT ![i] = "state_after"]
    /\ UNCHANGED <<cosmos, session_id, tool_name, conditions_before, condition,
                   session, result, clock, before, evaluated, allowed_mapped, log>>

\* state_after = get_session_state(...); the ALLOW return.
StateAfter(i, ok) ==
    /\ UNCHANGED web
    /\ pc[i] = "state_after"
    /\ StoreOp(i, ok)
    /\ LET state_after == get_session_state(i, session_id[i], ok)
       IN result' = [result EXCEPT ![i] =
              [decision |-> "ALLOW",
               tool_name |-> tool_name[i],
               condition |-> condition[i],
               session_id |-> session_id[i],
               conditions_before |-> conditions_before[i],
               conditions_after |-> state_after.active_conditions]]
    /\ pc' = [pc EXCEPT ![i] = "return"]
    /\ UNCHANGED <<cosmos, items, sessions, session_id, tool_name, conditions_before,
                   condition, session, clock, before, evaluated, allowed_mapped, log>>

\* evaluate returns its GateResult to the caller; the frame is gone.
Returned(i) ==
    /\ pc[i] = "return"
    /\ evaluated' = [evaluated EXCEPT ![StoreOf(i)][session_id[i]] = @ + 1]
    /\ allowed_mapped' =
          IF result[i].decision = "ALLOW" /\ result[i].condition # NoCondition
          THEN [allowed_mapped EXCEPT ![StoreOf(i)][session_id[i]] = @ + 1]
          ELSE allowed_mapped
    /\ pc' = [pc EXCEPT ![i] = "idle"]
    /\ session_id' = [session_id EXCEPT ![i] = "None"]
    /\ tool_name' = [tool_name EXCEPT ![i] = ""]
    /\ conditions_before' = [conditions_before EXCEPT ![i] = <<>>]
    /\ condition' = [condition EXCEPT ![i] = NoCondition]
    /\ session' = [session EXCEPT ![i] = None]
    /\ result' = [result EXCEPT ![i] = NoResult]
    /\ failed' = [failed EXCEPT ![i] = FALSE]
    /\ before' = [before EXCEPT ![i] = None]
    /\ UNCHANGED <<cosmos, items, sessions, clock, nfail>>

Return(i) ==
    /\ Returned(i)
    /\ UNCHANGED <<log, web>>

ReturnLogged(i) ==
    /\ log' = Append(log, [event |-> "return", instance |-> i,
                           session_id |-> session_id[i], tool_name |-> tool_name[i],
                           decision |-> result[i].decision])
    /\ Returned(i)
    /\ UNCHANGED web

\* log_gate_decision: what became of the audit record. Nothing is sent when the
\* DCR settings are missing; an error while sending is caught and logged.
log_gate_decision_unguarded(configured, delivered) ==
    IF ~configured THEN "skipped"
    ELSE IF delivered THEN "sent" ELSE "raised"

log_gate_decision(configured, delivered) ==
    IF ~configured THEN "skipped"
    ELSE IF delivered THEN "sent" ELSE "failed"

\* POST /api/evaluate, from evaluate's return on: the audit record is emitted,
\* then the response is built from the GateResult. An exception leaving
\* log_gate_decision would leave the handler too, and the host answers 500.
evaluate_tool_call(i, configured, delivered) ==
    /\ pc[i] = "return"
    /\ LET outcome == log_gate_decision(configured, delivered)
       IN /\ audit' = [outcome |-> outcome, instance |-> i,
                       session_id |-> result[i].session_id,
                       decision |-> result[i].decision]
          /\ response' =
                IF outcome = "raised"
                THEN [status |-> 500, instance |-> i, body |-> NoResult]
                ELSE [status |-> IF result[i].decision = "ALLOW" THEN 200 ELSE 403,
                      instance |-> i,
                      body |-> result[i]]
    /\ Returned(i)
    /\ UNCHANGED <<log, snapshot, first_seen>>

\* GET /api/session/{session_id} that also keeps the record it made for an
\* unseen session.
get_session_creating(i, s, ok) ==
    /\ pc[i] = "idle"
    /\ StoreOp(i, ok)
    /\ LET state == get_session_state(i, s, ok)
           sess == get_or_create_session(i, s, ok)
       IN /\ snapshot' = [status |-> 200, instance |-> i, state |-> state]
          /\ first_seen' =
                IF first_seen[StoreOf(i)][s] = <<>>
                THEN [first_seen EXCEPT ![StoreOf(i)][s] = <<state.created_at>>]
                ELSE first_seen
          /\ IF cosmos[i]
             THEN /\ items' = [items EXCEPT ![s] = Document(sess)]
                  /\ UNCHANGED sessions
             ELSE /\ sessions' = [sessions EXCEPT ![i][s] = sess]
                  /\ UNCHANGED items
    /\ clock' = clock + 1
    /\ UNCHANGED <<cosmos, pc, session_id, tool_name, conditions_before,
                   condition, session, result, before, evaluated, allowed_mapped,
                   log, response, audit>>

\* GET /api/session/{session_id}: the state of the session as get_session_state
\* gives it, at the present time; time has passed before the next request.
get_session(i, s, ok) ==
    /\ pc[i] = "idle"
    /\ StoreOp(i, ok)
    /\ LET state == get_session_state(i, s, ok)
       IN /\ snapshot' = [status |-> 200, instance |-> i, state |-> state]
          /\ first_seen' =
                IF first_seen[StoreOf(i)][s] = <<>>
                THEN [first_seen EXCEPT ![StoreOf(i)][s] = <<state.created_at>>]
                ELSE first_seen
    /\ clock' = clock + 1
    /\ UNCHANGED <<cosmos, items, sessions, pc, session_id, tool_name,
                   conditions_before, condition, session, result, before,
                   evaluated, allowed_mapped, log, response, audit>>

\* Calls one after another, every store operation succeeding.
Next ==
    \/ \E i \in Instances, s \in SessionIds, t \in ToolNames : StartSeq(i, s, t)
    \/ \E i \in Instances : StateBefore(i, TRUE)
    \/ \E i \in Instances : Check(i, TRUE)
    \/ \E i \in Instances : RecordLoad(i, TRUE)
    \/ \E i \in Instances : _save_session(i, TRUE)
    \/ \E i \in Instances : StateAfter(i, TRUE)
    \/ \E i \in Instances : Return(i)

Spec == Init /\ [][Next]_vars

\* One session called again and again, one call after another.
StartLong(i, t) ==
    /\ \A j \in Instances : pc[j] = "idle"
    /\ clock < MaxSessionCalls
    /\ Invoke(i, "s1", t)
    /\ UNCHANGED log

\* An evaluation request for session s1 made with no other request in progress,
\* one of MaxRequests.
StartRequest(i, t) ==
    /\ \A j \in Instances : pc[j] = "idle"
    /\ clock < MaxRequests
    /\ Invoke(i, "s1", t)
    /\ UNCHANGED log

Query(i, s) ==
    /\ \A j \in Instances : pc[j] = "idle"
    /\ clock < MaxRequests
    /\ get_session(i, s, TRUE)

\* A call begun while the other instance may be inside a call of another session.
StartDistinct(i, s, t) ==
    /\ \A j \in Instances : pc[j] # "idle" => session_id[j] # s
    /\ Call(i, s, t)
    /\ UNCHANGED log

\* One tool sequence fed to sessions s1 and s2, step by step: the tool is chosen
\* for s1 and the same tool is then given to s2. The in-memory store of a
\* process is reached through that process only.
StartReplay(i, s, t) ==
    /\ \A j \in Instances : pc[j] = "idle"
    /\ clock < 2 * MaxSteps
    /\ cosmos[i] \/ i = "i1"
    /\ IF Len(log) % 2 = 0
       THEN s = "s1"
       ELSE s = "s2" /\ t = log[Len(log)].tool_name
    /\ Invoke(i, s, t)
    /\ UNCHANGED log

\* The result of a step of the sequence, as the caller receives it.
ReturnReplay(i) ==
    /\ pc[i] = "return"
    /\ log' = Append(log, [session_id |-> session_id[i], tool_name |-> tool_name[i],
                           decision |-> result[i].decision,
                           conditions_after |-> result[i].conditions_after])
    /\ Returned(i)
    /\ UNCHANGED web

\* Every instance reached its Cosmos container: the store is the shared one.
InitCosmos ==
    /\ Init
    /\ \A i \in Instances : cosmos[i]

\* The instances are configured alike: all on Cosmos, or all on their own memory.
InitUniform ==
    /\ Init
    /\ \A i, j \in Instances : cosmos[i] = cosmos[j]

\* Calls one after another, any Cosmos read or write failing.
NextFail ==
    \/ \E i \in Instances, s \in SessionIds, t \in ToolNames : StartSeq(i, s, t)
    \/ \E i \in Instances, ok \in BOOLEAN : StateBefore(i, ok)
    \/ \E i \in Instances, ok \in BOOLEAN : Check(i, ok)
    \/ \E i \in Instances, ok \in BOOLEAN : RecordLoad(i, ok)
    \/ \E i \in Instances, ok \in BOOLEAN : _save_session(i, ok)
    \/ \E i \in Instances, ok \in BOOLEAN : StateAfter(i, ok)
    \/ \E i \in Instances : Return(i)

SpecFail == InitUniform /\ [][NextFail]_vars

\* Calls on one session, one after another, every store operation succeeding.
NextLong ==
    \/ \E i \in Instances, t \in ToolNames : StartLong(i, t)
    \/ \E i \in Instances : StateBefore(i, TRUE)
    \/ \E i \in Instances : Check(i, TRUE)
    \/ \E i \in Instances : RecordLoad(i, TRUE)
    \/ \E i \in Instances : _save_session(i, TRUE)
    \/ \E i \in Instances : StateAfter(i, TRUE)
    \/ \E i \in Instances : Return(i)

SpecLong == InitUniform /\ [][NextLong]_vars

\* Evaluations of session s1 and snapshot queries of any session, one request
\* after another, every store operation succeeding.
NextQuery ==
    \/ \E i \in Instances, t \in ToolNames : StartRequest(i, t)
    \/ \E i \in Instances, s \in SessionIds : Query(i, s)
    \/ \E i \in Instances : StateBefore(i, TRUE)
    \/ \E i \in Instances : Check(i, TRUE)
    \/ \E i \in Instances : RecordLoad(i, TRUE)
    \/ \E i \in Instances : _save_session(i, TRUE)
    \/ \E i \in Instances : StateAfter(i, TRUE)
    \/ \E i \in Instances : Return(i)

SpecQuery == InitUniform /\ [][NextQuery]_vars

\* POST /api/evaluate requests one after another, the audit record sent, failing
\* to be sent, or not attempted; every store operation succeeding.
NextHttp ==
    \/ \E i \in Instances, s \in SessionIds, t \in ToolNames : StartSeq(i, s, t)
    \/ \E i \in Instances : StateBefore(i, TRUE)
    \/ \E i \in Instances : Check(i, TRUE)
    \/ \E i \in Instances : RecordLoad(i, TRUE)
    \/ \E i \in Instances : _save_session(i, TRUE)
    \/ \E i \in Instances : StateAfter(i, TRUE)
    \/ \E i \in Instances, configured \in BOOLEAN, delivered \in BOOLEAN :
          evaluate_tool_call(i, configured, delivered)

SpecHttp == InitUniform /\ [][NextHttp]_vars

\* Calls of different instances overlapping, never two of them in the same
\* session at once; every store operation succeeding.
NextDistinct ==
    \/ \E i \in Instances, s \in SessionIds, t \in ToolNames : StartDistinct(i, s, t)
    \/ \E i \in Instances : StateBefore(i, TRUE)
    \/ \E i \in Instances : Check(i, TRUE)
    \/ \E i \in Instances : RecordLoad(i, TRUE)
    \/ \E i \in Instances : _save_session(i, TRUE)
    \/ \E i \in Instances : StateAfter(i, TRUE)
    \/ \E i \in Instances : Return(i)

SpecDistinct == InitUniform /\ [][NextDistinct]_vars

\* The same tool sequence fed to two sessions, calls one after another, every
\* store operation succeeding.
NextReplay ==
    \/ \E i \in Instances, s \in SessionIds, t \in ToolNames : StartReplay(i, s, t)
    \/ \E i \in Instances : StateBefore(i, TRUE)
    \/ \E i \in Instances : Check(i, TRUE)
    \/ \E i \in Instances : RecordLoad(i, TRUE)
    \/ \E i \in Instances : _save_session(i, TRUE)
    \/ \E i \in Instances : StateAfter(i, TRUE)
    \/ \E i \in Instances : ReturnReplay(i)

SpecReplay == InitUniform /\ [][NextReplay]_vars

\* Calls of different instances overlapping, every store operation succeeding.
NextConc ==
    \/ \E i \in Instances, s \in SessionIds, t \in ToolNames : Start(i, s, t)
    \/ \E i \in Instances : StateBefore(i, TRUE)
    \/ \E i \in Instances : Check(i, TRUE)
    \/ \E i \in Instances : RecordLoad(i, TRUE)
    \/ \E i \in Instances : _save_session(i, TRUE)
    \/ \E i \in Instances : StateAfter(i, TRUE)
    \/ \E i \in Instances : ReturnLogged(i)

SpecConc == InitCosmos /\ [][NextConc]_vars

\* ------------------------------------------------------------- properties
\* The active_conditions that were stored when the call of instance i began.
BeforeActive(i) ==
    IF before[i] = None THEN {}
    ELSE IF cosmos[i] THEN ToSet(before[i].active_conditions)
    ELSE before[i].active_conditions

Idle == \A i \in Instances : pc[i] = "idle"

Returning(i) == pc[i] = "return"

Mapped(i) == tool_name[i] \in DOMAIN ToolConditions

\* C1. Rule of Two, calls one after another with every store operation
\* succeeding: no store ever holds all three conditions for a session, and a call
\* whose tool's condition would complete the stored set returns BLOCK with the
\* stored record as it was when the call began.
C1_RuleOfTwoSequential ==
    /\ \A i \in Instances, s \in SessionIds : StoredActive(i, s) # ALL_CONDITIONS
    /\ \A i \in Instances :
          (/\ Returning(i)
           /\ Mapped(i)
           /\ BeforeActive(i) \cup {ToolConditions[tool_name[i]]} = ALL_CONDITIONS)
          => /\ result[i].decision = "BLOCK"
             /\ Stored(i, session_id[i]) = before[i]

\* C1 witness: a call is returning BLOCK in a session that holds two conditions.
C1_Witness ==
    \E i \in Instances :
       /\ Returning(i)
       /\ result[i].decision = "BLOCK"
       /\ Cardinality(StoredActive(i, session_id[i])) = 2

\* The call of instance i has come out of record_tool_call.
Committed(i) ==
    \/ pc[i] = "state_after"
    \/ /\ Returning(i)
       /\ result[i].decision = "ALLOW"
       /\ result[i].condition # NoCondition

\* C2. Evaluations of one session by instances sharing the Cosmos container
\* behave as if run one at a time: the container never holds all three conditions
\* for a session, and of two overlapping calls that both began with the same single
\* stored condition and carry the two missing ones, at most one returns ALLOW.
C2_Linearizable ==
    /\ \A i \in Instances, s \in SessionIds : StoredActive(i, s) # ALL_CONDITIONS
    /\ \A i, j \in Instances :
          (/\ i # j
           /\ Returning(i) /\ Returning(j)
           /\ session_id[i] = session_id[j]
           /\ Mapped(i) /\ Mapped(j)
           /\ Cardinality(BeforeActive(i)) = 1
           /\ BeforeActive(j) = BeforeActive(i)
           /\ BeforeActive(i) \cup {condition[i], condition[j]} = ALL_CONDITIONS)
          => ~(result[i].decision = "ALLOW" /\ result[j].decision = "ALLOW")

\* C3. No lost update: once two instances have both come out of record_tool_call
\* for the same session, the container holds both their conditions and every
\* condition that was stored when either began.
C3_NoLostUpdate ==
    \A i, j \in Instances :
       (/\ i # j
        /\ Committed(i) /\ Committed(j)
        /\ session_id[i] = session_id[j])
       => ({condition[i], condition[j]} \cup BeforeActive(i) \cup BeforeActive(j))
             \subseteq StoredActive(i, session_id[i])

\* The calls and returns of session s, in order.
SessionLog(s) == SelectSeq(log, LAMBDA e : e.session_id = s)

\* Entry k of the race scenario: read_db and fetch_webpage called, both returned,
\* then send_email called and returned.
RaceEntry(L, k) ==
    CASE k \in {1, 2} -> /\ L[k].event = "call"
                         /\ L[k].tool_name \in {"read_db", "fetch_webpage"}
                         /\ (k = 2 => L[2].tool_name # L[1].tool_name)
      [] k \in {3, 4} -> L[k].event = "return"
      [] k = 5 -> L[k].event = "call" /\ L[k].tool_name = "send_email"
      [] k = 6 -> L[k].event = "return"
      [] OTHER -> FALSE

\* What session s has seen so far is the race scenario, or a beginning of it.
InRaceScenario(s) ==
    LET L == SessionLog(s)
    IN /\ Len(L) >= 2
       /\ \A k \in 1..Len(L) : RaceEntry(L, k)

\* C4. The race scenario: a fresh session, overlapping calls of a private_data
\* tool and an untrusted_content tool, then an exfiltration_vector tool called
\* after both returned. At most two conditions are ever stored for the session
\* and the third call returns BLOCK.
C4_RaceScenario ==
    \A s \in SessionIds :
       InRaceScenario(s) =>
          /\ \A i \in Instances : Cardinality(StoredActive(i, s)) <= 2
          /\ Len(SessionLog(s)) = 6 => SessionLog(s)[6].decision = "BLOCK"

\* C5. Fail closed: a call during which a store read or write failed returns
\* neither ALLOW nor BLOCK.
C5_FailClosed ==
    \A i \in Instances :
       (Returning(i) /\ failed[i]) => result[i].decision \notin {"ALLOW", "BLOCK"}

\* C6. No partial commit on BLOCK: a call that returns BLOCK leaves the stored
\* record of its session (active_conditions, tool_history, call_count and the
\* rest) as it was when the call began, and its conditions_after equals its
\* conditions_before.
C6_NoPartialCommitOnBlock ==
    \A i \in Instances :
       (Returning(i) /\ result[i].decision = "BLOCK")
       => /\ Stored(i, session_id[i]) = before[i]
          /\ StoredActive(i, session_id[i]) = BeforeActive(i)
          /\ result[i].conditions_after = result[i].conditions_before

\* C6 witness: a BLOCK is being returned for a session with a stored record.
C6_Witness ==
    \E i \in Instances :
       /\ Returning(i)
       /\ result[i].decision = "BLOCK"
       /\ Stored(i, session_id[i]) # None
       /\ StoredCallCount(i, session_id[i]) >= 2

\* C7. Unknown tool: a call of a tool that is not in the registry returns ALLOW
\* with no condition and conditions_after equal to conditions_before, and leaves
\* the stored record of its session as it was, whatever is stored.
C7_UnknownToolPath ==
    \A i \in Instances :
       (Returning(i) /\ tool_name[i] \notin DOMAIN ToolConditions)
       => /\ result[i].decision = "ALLOW"
          /\ result[i].condition = NoCondition
          /\ result[i].conditions_after = result[i].conditions_before
          /\ Stored(i, session_id[i]) = before[i]

\* C7 witness: an unknown tool is being returned from in a session that holds two
\* of the three conditions.
C7_Witness ==
    \E i \in Instances :
       /\ Returning(i)
       /\ tool_name[i] = "list_files"
       /\ Cardinality(StoredActive(i, session_id[i])) = 2

\* The conditions the Cosmos container holds for session s.
ItemsActive(s) == IF items[s] = None THEN {} ELSE ToSet(items[s].active_conditions)

\* The conditions instance i holds in memory for session s.
SessionsActive(i, s) ==
    IF sessions[i][s] = None THEN {} ELSE sessions[i][s].active_conditions

\* C8. Monotonicity: no step takes a condition out of what is stored for a
\* session, store reads and writes failing or not.
C8_Monotonic ==
    [][\A s \in SessionIds :
          /\ ItemsActive(s) \subseteq ItemsActive(s)'
          /\ \A i \in Instances : SessionsActive(i, s) \subseteq SessionsActive(i, s)']_vars

\* C9. ALLOW of a mapped tool commits its condition: when the call returns ALLOW
\* for a tool mapped to C, what is stored is the set stored when the call began
\* united with {C}, and conditions_after is that set, sorted, so holds C.
C9_AllowCommits ==
    \A i \in Instances :
       (Returning(i) /\ Mapped(i) /\ result[i].decision = "ALLOW")
       => /\ StoredActive(i, session_id[i]) =
                BeforeActive(i) \cup {ToolConditions[tool_name[i]]}
          /\ result[i].conditions_after = Sorted(StoredActive(i, session_id[i]))
          /\ ToolConditions[tool_name[i]] \in ToSet(result[i].conditions_after)

\* C10 as claimed: between calls, the call_count stored for a session is the
\* number of evaluate calls returned for it.
C10_CountsEveryEvaluation ==
    Idle => \A i \in Instances, s \in SessionIds :
               StoredCallCount(i, s) = evaluated[StoreOf(i)][s]

\* C10 as amended: between calls, the call_count stored for a session never
\* exceeds the number of calls that returned ALLOW for a mapped tool, and equals
\* it when no store operation has failed; an ALLOW for an unmapped tool and a
\* BLOCK are not counted.
C10_CountsCommittedCalls ==
    Idle => \A i \in Instances, s \in SessionIds :
               /\ StoredCallCount(i, s) <= allowed_mapped[StoreOf(i)][s]
               /\ nfail = 0 => StoredCallCount(i, s) = allowed_mapped[StoreOf(i)][s]

\* C10 witness: a session has had a recorded call, an unknown-tool call and a
\* BLOCK or second unrecorded call, and all have returned.
C10_Witness ==
    /\ Idle
    /\ \E i \in Instances, s \in SessionIds :
          /\ StoredCallCount(i, s) >= 1
          /\ evaluated[StoreOf(i)][s] > allowed_mapped[StoreOf(i)][s]

\* C16. Rule of Two under store failures: with any Cosmos read or write failing,
\* calls made one after another never bring what is stored for a session to all
\* three conditions.
C16_RuleOfTwoSurvivesFailure ==
    \A i \in Instances, s \in SessionIds : StoredActive(i, s) # ALL_CONDITIONS

\* The history entry record_tool_call makes for the call of instance i.
HistoryEntry(i) ==
    [tool |-> tool_name[i], condition |-> condition[i], timestamp |-> clock]

\* C17. Commit is idempotent on the condition set, not on the record: once
\* record_tool_call has saved a call whose condition was already stored, the
\* stored active_conditions are as before, tool_history is the earlier history
\* with exactly one entry (tool, condition, timestamp) appended, and call_count
\* is one more.
C17_CommitIdempotentOnConditions ==
    \A i \in Instances :
       (pc[i] = "state_after" /\ condition[i] \in BeforeActive(i))
       => /\ StoredActive(i, session_id[i]) = BeforeActive(i)
          /\ StoredHistory(i, session_id[i]) =
                Append(before[i].tool_history, HistoryEntry(i))
          /\ StoredCallCount(i, session_id[i]) = before[i].call_count + 1

\* C17 witness: a call whose condition was already stored, beside another
\* condition and after two recorded calls, has been saved.
C17_Witness ==
    \E i \in Instances :
       /\ pc[i] = "state_after"
       /\ condition[i] \in BeforeActive(i)
       /\ Cardinality(BeforeActive(i)) = 2
       /\ Len(StoredHistory(i, session_id[i])) = 3

\* The conditions that appear in a tool_history.
HistoryConditions(h) == {h[k].condition : k \in 1..Len(h)}

\* C19. History agrees with the condition set: with calls made one after another
\* and every store operation succeeding, for every stored session tool_history
\* is as long as call_count, every entry carries one of the three conditions, and
\* the conditions in tool_history are exactly active_conditions; between calls
\* the history has one entry per call that returned ALLOW for a mapped tool.
C19_HistoryConsistent ==
    \A i \in Instances, s \in SessionIds :
       /\ Len(StoredHistory(i, s)) = StoredCallCount(i, s)
       /\ \A k \in 1..Len(StoredHistory(i, s)) :
             StoredHistory(i, s)[k].condition \in ALL_CONDITIONS
       /\ HistoryConditions(StoredHistory(i, s)) = StoredActive(i, s)
       /\ Idle => Len(StoredHistory(i, s)) = allowed_mapped[StoreOf(i)][s]

\* C19 witness: between calls, a session holds two conditions over three recorded
\* calls.
C19_Witness ==
    /\ Idle
    /\ \E i \in Instances, s \in SessionIds :
          /\ Len(StoredHistory(i, s)) = 3
          /\ Cardinality(StoredActive(i, s)) = 2

\* C15. Two of three is stable: in calls made one after another, a call that
\* begins with exactly two conditions stored and whose tool is mapped to the
\* missing one returns BLOCK and leaves the record as it was, and one whose tool
\* is mapped to a stored condition returns ALLOW, is appended to tool_history and
\* leaves active_conditions as they were; so two of three stays two of three.
C15_TwoOfThreeStable ==
    \A i \in Instances :
       (Returning(i) /\ Mapped(i) /\ Cardinality(BeforeActive(i)) = 2)
       => IF ToolConditions[tool_name[i]] \in BeforeActive(i)
          THEN /\ result[i].decision = "ALLOW"
               /\ StoredActive(i, session_id[i]) = BeforeActive(i)
               /\ StoredHistory(i, session_id[i]) =
                     Append(before[i].tool_history, HistoryEntry(i))
          ELSE /\ result[i].decision = "BLOCK"
               /\ Stored(i, session_id[i]) = before[i]

\* C15 witness: the missing condition's tool is being BLOCKed again, after an
\* earlier BLOCK and a recorded call of an already active condition.
C15_Witness ==
    \E i \in Instances :
       /\ Returning(i)
       /\ result[i].decision = "BLOCK"
       /\ StoredCallCount(i, session_id[i]) = 3
       /\ evaluated[StoreOf(i)][session_id[i]] = 4
       /\ allowed_mapped[StoreOf(i)][session_id[i]] = 3

\* C14. created_at is set once: every snapshot of a session reports the
\* created_at that the first snapshot of that session reported.
C14_CreatedAtSetOnce ==
    snapshot # NoSnapshot
    => <<snapshot.state.created_at>> =
          first_seen[StoreOf(snapshot.instance)][snapshot.state.session_id]

\* A snapshot step: a request that is answered at once and starts no evaluation.
QueryStep == snapshot' # snapshot \/ (clock' # clock /\ pc' = pc)

\* would_complete_trifecta has just been evaluated by instance i.
Checked(i) == pc[i] = "check" /\ pc'[i] # "check"

\* get_session_state has just been evaluated by instance i inside evaluate.
StateRead(i) == pc[i] \in {"state_before", "state_after"} /\ pc'[i] # pc[i]

\* C18. Queries are read-only: a step that evaluates would_complete_trifecta or
\* get_session_state (inside evaluate or for a snapshot request) leaves every
\* session's stored record as it was, a session with no record still having
\* none; and would_complete_trifecta is true (evaluate goes to its BLOCK return)
\* exactly when the stored active_conditions with the given condition added are
\* all three conditions.
C18_QueriesReadOnly ==
    [][/\ (QueryStep \/ \E i \in Instances : Checked(i) \/ StateRead(i))
          => (items' = items /\ sessions' = sessions)
       /\ \A i \in Instances :
             Checked(i)
             => ((pc'[i] = "return" /\ result'[i].decision = "BLOCK")
                 <=> StoredActive(i, session_id[i]) \cup {condition[i]} = ALL_CONDITIONS)
      ]_vars

\* C18 witness: a snapshot was given of a session that has no stored record and
\* still has none, and would_complete_trifecta has been true for another session.
C18_Witness ==
    /\ snapshot # NoSnapshot
    /\ Stored(snapshot.instance, snapshot.state.session_id) = None
    /\ \E i \in Instances :
          /\ Returning(i)
          /\ result[i].decision = "BLOCK"
          /\ StoreOf(i) = StoreOf(snapshot.instance)

\* The HTTP status that goes with a decision.
StatusOf(decision) == IF decision = "ALLOW" THEN 200 ELSE 403

\* Instance i is answering its evaluation request.
Responding(i) == pc[i] = "return" /\ pc'[i] = "idle"

\* C12. Audit isolation: whatever becomes of the audit record (sent, failed with
\* an error, or skipped because the sink is not configured), the response
\* carries the GateResult that evaluate had already returned, with status 200
\* for ALLOW and 403 for BLOCK, and the stored session records are not touched.
C12_AuditIsolation ==
    [][\A i \in Instances :
          Responding(i)
          => /\ audit'.outcome \in {"sent", "failed", "skipped"}
             /\ response'.body = result[i]
             /\ response'.status = StatusOf(result[i].decision)
             /\ items' = items
             /\ sessions' = sessions
      ]_vars

\* C12 witness: a BLOCK was answered with 403 although its audit record could
\* not be delivered.
C12_Witness ==
    /\ audit.outcome = "failed"
    /\ response.status = 403
    /\ response.body.decision = "BLOCK"

\* Instance i takes a step of its call.
Stepping(i) == pc'[i] # pc[i]

\* C13. Session independence: in every interleaving of calls on distinct
\* sessions, the stored record of a session changes only in a step of a call on
\* that session, and the decision of a call is BLOCK exactly when the conditions
\* stored for its own session when it began, with its tool's condition added,
\* are all three; whatever the other session holds.
C13_SessionIndependence ==
    [][/\ \A s \in SessionIds :
             (items'[s] # items[s] \/ \E j \in Instances : sessions'[j][s] # sessions[j][s])
             => \E i \in Instances : Stepping(i) /\ session_id[i] = s
       /\ \A i \in Instances :
             (Stepping(i) /\ pc'[i] = "return")
             => (result'[i].decision = "BLOCK"
                 <=> /\ tool_name[i] \in DOMAIN ToolConditions
                     /\ BeforeActive(i) \cup {ToolConditions[tool_name[i]]} = ALL_CONDITIONS)
      ]_vars

\* C13 witness: on the shared store, a call is ALLOWed as its session's second
\* condition while an overlapping call has stored the third condition in the
\* other session.
C13_Witness ==
    \E i, j \in Instances :
       /\ i # j
       /\ cosmos[i]
       /\ Returning(i)
       /\ result[i].decision = "ALLOW"
       /\ pc[j] = "state_after"
       /\ session_id[j] # session_id[i]
       /\ Cardinality(StoredActive(i, session_id[i])) = 2
       /\ StoredActive(i, session_id[i]) \cup StoredActive(j, session_id[j]) = ALL_CONDITIONS

\* The decision as a function of a set of active conditions and a tool.
Decide(active, tool) ==
    IF tool \in DOMAIN ToolConditions /\ active \cup {ToolConditions[tool]} = ALL_CONDITIONS
    THEN "BLOCK"
    ELSE "ALLOW"

\* C11. Determinism given history: every decision is the function Decide of the
\* conditions stored for the session when the call began and of the tool; and of
\* two sessions fed the same tool sequence from empty, the k-th call on the one
\* and the k-th call on the other return the same decision and the same
\* conditions_after.
C11_Deterministic ==
    /\ \A i \in Instances :
          Returning(i) => result[i].decision = Decide(BeforeActive(i), tool_name[i])
    /\ \A k \in 1..Len(log) :
          k % 2 = 0
          => /\ log[k].tool_name = log[k - 1].tool_name
             /\ log[k].session_id # log[k - 1].session_id
             /\ log[k].decision = log[k - 1].decision
             /\ log[k].conditions_after = log[k - 1].conditions_after

\* C11 witness: the third tool of the sequence was BLOCKed in both sessions,
\* after two ALLOWed steps that left two conditions in each.
C11_Witness ==
    /\ Len(log) = 6
    /\ log[5].decision = "BLOCK"
    /\ log[6].decision = "BLOCK"
    /\ Len(log[6].conditions_after) = 2
====
